---- MODULE Spec2Model ----
(***************************************************************************)
(* Model of the AI-Samvad front end: the interview page (countdown,        *)
(* auto-submit, manual Finish, permission gate, transcripts), the pure     *)
(* helper buildQuestions, the camera preview with attention detection and  *)
(* its camera stream, the registration form that starts a session, and the *)
(* audio controls (speaking a question, recording and transcribing).       *)
(*                                                                         *)
(* Conventions.  A nullable JavaScript value is a sequence of length 0     *)
(* (null / undefined / absent key) or 1 (<<v>>).  Array positions are the  *)
(* JavaScript 0-based ones; TLA+ sequences are 1-based, so element i of an *)
(* array a is a[i + 1].  A React event handler or effect callback runs to  *)
(* completion, and the re-render and the effects its state updates cause   *)
(* run before the next event: one action is one handler plus the effects   *)
(* it triggers.                                                            *)
(***************************************************************************)
EXTENDS Integers, Sequences, FiniteSets, TLC

VARIABLES
    initialData,  \* parsed sessionStorage["interview:<id>"] (page.tsx:17-32)
    page,         \* React state of InterviewPage (page.tsx:34-43, 218, 256)
    storage,      \* sessionStorage keys of this session written by the page
    reqs,         \* submit-all requests of the current page load not yet settled
    recs,         \* recordings started on this page whose transcription is pending
    loc,          \* which document is shown: "interview" or "result"
    now,          \* wall clock, in seconds
    hist,         \* history (ghost) counters used to state the properties
    base,         \* argument of buildQuestions under QSpec
    count,        \* argument of buildQuestions under QSpec
    out,          \* result of buildQuestions under QSpec
    cam,          \* CameraPreview: its refs, the clock it reads, the frames observed
    form,         \* UserRegistrationForm: its state, its requests, what it stored
    audio         \* AudioControls: its state, refs, recorders and requests in flight

vars == <<initialData, page, storage, reqs, recs, loc, now, hist, base, count, out,
          cam, form, audio>>

(***************************************************************************)
(* Bounds of the model.                                                    *)
(***************************************************************************)
MaxSecs == 2      \* longest allotted duration explored, in seconds
MaxUserSteps == 2 \* Finish clicks, page loads after the first and idle seconds, together
MaxPool == 3      \* largest question pool given to buildQuestions under QSpec
MaxCount == 4     \* largest requested count given to buildQuestions under QSpec
MaxQuestions == 2 \* number of questions presented under AnswerSpec
MaxClock == 11000 \* latest time of a camera frame under AttnSpec, in milliseconds
MaxFaults == 2    \* failing sessionStorage calls under FaultSpec
MaxLapseClock == 46000 \* latest time of a camera frame under IntegritySpec
MaxRecordings == 2 \* clicks on Record answer on one mounted AudioControls
MaxSpeaks == 2    \* clicks on Speak question on one mounted AudioControls
MaxCamRequests == 4 \* getUserMedia calls of one mounted CameraPreview

None == <<>>
Some(v) == <<v>>
IsSome(x) == Len(x) = 1
Val(x) == x[1]

Max(a, b) == IF a >= b THEN a ELSE b
Min(a, b) == IF a <= b THEN a ELSE b

(***************************************************************************)
(* JavaScript conversions used by the countdown.  A string of digits is a  *)
(* sequence of its one-character strings.                                  *)
(***************************************************************************)
DigitChars == <<"0", "1", "2", "3", "4", "5", "6", "7", "8", "9">>

CharValue(c) == (CHOOSE k \in 1..10 : DigitChars[k] = c) - 1

RECURSIVE DigitsOf(_)
DigitsOf(n) ==
    IF n < 10 THEN <<DigitChars[n + 1]>>
    ELSE Append(DigitsOf(n \div 10), DigitChars[(n % 10) + 1])

\* String(n) for an integer n
String(n) ==
    IF n < 0 THEN <<"-">> \o DigitsOf(0 - n) ELSE DigitsOf(n)

RECURSIVE DigitsValue(_, _)
DigitsValue(s, acc) ==
    IF s = <<>> THEN acc ELSE DigitsValue(Tail(s), acc * 10 + CharValue(Head(s)))

\* parseInt(s) for a string of an optional sign and digits: None is NaN
parseInt(s) ==
    IF s = <<>> THEN None
    ELSE IF Head(s) = "-"
         THEN IF Tail(s) = <<>> THEN None ELSE Some(0 - DigitsValue(Tail(s), 0))
         ELSE Some(DigitsValue(s, 0))

\* x || 0 for a number x that may be NaN
OrZero(x) == IF IsSome(x) THEN Val(x) ELSE 0

(***************************************************************************)
(* buildQuestions (page.tsx:48-56).  cnt is None when the count is         *)
(* undefined.                                                              *)
(***************************************************************************)
buildQuestionsOffByOne(b, cnt) ==
    LET target == Max(0, IF IsSome(cnt) THEN Val(cnt) ELSE Len(b))
    IN  IF Len(b) = 0 THEN <<>>
        ELSE IF target <= Len(b) THEN SubSeq(b, 1, target)
        ELSE [i \in 1..target |-> b[(i % Len(b)) + 1]]

buildQuestionsNoRepeat(b, cnt) ==
    LET target == Max(0, IF IsSome(cnt) THEN Val(cnt) ELSE Len(b))
    IN  IF Len(b) = 0 THEN <<>>
        ELSE SubSeq(b, 1, Min(target, Len(b)))

buildQuestions(b, cnt) ==
    LET target == Max(0, IF IsSome(cnt) THEN Val(cnt) ELSE Len(b))
    IN  IF Len(b) = 0 THEN <<>>
        ELSE IF target <= Len(b) THEN SubSeq(b, 1, target)
        ELSE [i \in 1..target |-> b[((i - 1) % Len(b)) + 1]]

\* the question list the page renders (page.tsx:44, 47, 56)
questions == buildQuestions(initialData.questions, initialData.num_questions)

(***************************************************************************)
(* Countdown helpers (page.tsx:217-279).  A duration in minutes is a       *)
(* rational [num, den]; None is undefined.                                 *)
(***************************************************************************)
SecondsPerMinute == 60

\* Math.floor(x) for the rational n / d, d > 0
FloorDiv(n, d) == n \div d

\* Math.max(0, Math.floor((durationMinutes ?? 0) * 60))   (page.tsx:227)
expectedSecs(dm) ==
    Max(0, IF IsSome(dm) THEN FloorDiv(Val(dm).num * SecondsPerMinute, Val(dm).den) ELSE 0)

durationMinutes == initialData.duration_minutes

\* resetNeeded (page.tsx:228-238): no meta, or meta of another duration
resetNeeded(metaRaw, dm) ==
    IF ~IsSome(metaRaw) THEN TRUE ELSE Val(metaRaw).duration_minutes # dm

\* the value restored from the timer key (page.tsx:250-251)
restoredSecondsFull(stored, dm) ==
    IF expectedSecs(dm) > 0 THEN Some(expectedSecs(dm)) ELSE None

restoredSeconds(stored, dm) ==
    IF IsSome(stored) THEN Some(OrZero(parseInt(Val(stored))))
    ELSE IF expectedSecs(dm) > 0 THEN Some(expectedSecs(dm)) ELSE None

\* the interval callback's new value and what it persists (page.tsx:270-275)
tickValueTwice(s) == (IF IsSome(s) THEN Val(s) ELSE 0) - 2

tickValue(s) == (IF IsSome(s) THEN Val(s) ELSE 0) - 1

tickPersisted(v) == String(Max(0, v))

\* the seeding test of the reset branch (page.tsx:240)
seedsCountdownAlways(secs) == secs >= 0

seedsCountdown(secs) == secs > 0

(***************************************************************************)
(* The interview page.  A "world" w is the record of what a handler reads  *)
(* and writes: [page, storage, reqs, hist].                                *)
(***************************************************************************)
\* the permission states the browser reports, as (camera, mic) pairs explored
PermOutcomes ==
    {[camera |-> "granted", mic |-> "granted"],
     [camera |-> "denied", mic |-> "granted"]}

\* the outcomes of getUserMedia explored by requestPermissions
RequestOutcomes ==
    {[camera |-> "granted", mic |-> "granted"],
     [camera |-> "denied", mic |-> "denied"]}

lookup(t, i) == IF i \in DOMAIN t THEN t[i] ELSE ""

\* answers = questions.map((_, i) => transcripts[i] ?? "")   (page.tsx:183)
answersOfUnpadded(t) ==
    LET len == IF DOMAIN t = {} THEN 0
               ELSE (CHOOSE m \in DOMAIN t : \A k \in DOMAIN t : k <= m) + 1
    IN  [i \in 1..len |-> lookup(t, i - 1)]

answersOf(t) == [i \in 1..Len(questions) |-> lookup(t, i - 1)]

\* setTranscripts(prev => { next = prev.slice(); next[i] = text })  (page.tsx:165-171)
setTranscript(t, i, text) ==
    [k \in (DOMAIN t) \cup {i} |-> IF k = i THEN text ELSE t[k]]

\* onFinish up to the fetch (page.tsx:173-188); by is "manual" or "auto"
onFinish(w, by) ==
    [w EXCEPT
        !.page.finished = TRUE,
        !.page.submitting = TRUE,
        !.page.submitError = None,
        !.reqs = Append(@, [by |-> by, answers |-> answersOf(w.page.transcripts),
                            stage |-> "pending"]),
        !.hist.sent[by] = @ + 1,
        !.hist.autoCalls = IF by = "auto" THEN @ + 1 ELSE @]

\* the guard of the auto-submit branch (page.tsx:259-262)
autoSubmitDueNoFlag(p) ==
    /\ IsSome(p.secondsLeft)
    /\ Val(p.secondsLeft) <= 0
    /\ ~p.submitting

autoSubmitDueUnlessFinished(p) ==
    /\ IsSome(p.secondsLeft)
    /\ Val(p.secondsLeft) <= 0
    /\ ~p.autoSubmitted
    /\ ~p.submitting
    /\ ~p.finished

autoSubmitDue(p) ==
    /\ IsSome(p.secondsLeft)
    /\ Val(p.secondsLeft) <= 0
    /\ ~p.autoSubmitted
    /\ ~p.submitting

\* the effect of page.tsx:258-267, run after every change of its dependencies
autoSubmitEffect(w) ==
    IF autoSubmitDue(w.page)
    THEN onFinish([w EXCEPT !.page.autoSubmitted = TRUE], "auto")
    ELSE w

intervalActiveAtZero(p) ==
    /\ IsSome(p.secondsLeft)
    /\ p.permOk

\* the interval of page.tsx:268-278 exists
intervalActive(p) ==
    /\ IsSome(p.secondsLeft)
    /\ Val(p.secondsLeft) > 0
    /\ p.permOk

\* the timer init effect (page.tsx:219-254), run when permOk changed; t is Date.now()
timerInitEffect(w, t) ==
    IF ~w.page.permOk THEN w
    ELSE IF resetNeeded(w.storage.timerMeta, durationMinutes)
    THEN IF seedsCountdown(expectedSecs(durationMinutes))
         THEN [w EXCEPT
                 !.page.secondsLeft = Some(expectedSecs(durationMinutes)),
                 !.storage.timer = Some(String(expectedSecs(durationMinutes))),
                 !.storage.timerMeta =
                     Some([duration_minutes |-> durationMinutes, startedAt |-> t]),
                 !.hist.seeds = @ + 1]
         ELSE [w EXCEPT
                 !.page.secondsLeft = None,
                 !.storage.timer = None,
                 !.storage.timerMeta = None]
    ELSE [w EXCEPT
            !.page.secondsLeft = restoredSeconds(w.storage.timer, durationMinutes)]

\* disabled of AudioControls and CameraPreview (page.tsx:312, 337)
mediaDisabled(p) ==
    \/ ~p.permOk
    \/ p.finished
    \/ p.submitting
    \/ (IsSome(p.secondsLeft) /\ Val(p.secondsLeft) <= 0)

\* disabled of the Finish Interview button (page.tsx:372)
finishDisabled(p) == ~p.permOk \/ p.submitting

(***************************************************************************)
(* The countdown when sessionStorage fails (page.tsx:223-253, 272-274).    *)
(* fault names the storage call that throws: "read" (any access), "write"  *)
(* (every setItem), "writeMeta" (the setItem of the meta key), or "none".  *)
(***************************************************************************)
StorageFaults == {"none", "read", "write", "writeMeta"}

\* the timer init effect (page.tsx:219-254) with its try/catch
timerInitEffectFaulty(w, t, fault) ==
    IF ~w.page.permOk THEN w
    ELSE IF fault = "read" THEN w
    ELSE IF resetNeeded(w.storage.timerMeta, durationMinutes)
    THEN IF seedsCountdown(expectedSecs(durationMinutes))
         THEN [w EXCEPT
                 !.page.secondsLeft = Some(expectedSecs(durationMinutes)),
                 !.storage.timer =
                     IF fault = "write" THEN @
                     ELSE Some(String(expectedSecs(durationMinutes))),
                 !.storage.timerMeta =
                     IF fault \in {"write", "writeMeta"} THEN @
                     ELSE Some([duration_minutes |-> durationMinutes, startedAt |-> t]),
                 !.hist.seeds = @ + 1]
         ELSE [w EXCEPT
                 !.page.secondsLeft = None,
                 !.storage.timer = None,
                 !.storage.timerMeta = None]
    ELSE [w EXCEPT
            !.page.secondsLeft = restoredSeconds(w.storage.timer, durationMinutes)]

\* the interval callback (page.tsx:269-277) with its try/catch; writeFails: setItem throws
tickUpdaterNoCatch(w, writeFails) ==
    LET v == tickValue(w.page.secondsLeft)
    IN  IF writeFails
        THEN [w EXCEPT !.hist.ticks = @ + 1, !.hist.uncaught = TRUE]
        ELSE [w EXCEPT
                !.page.secondsLeft = Some(v),
                !.storage.timer = Some(tickPersisted(v)),
                !.hist.ticks = @ + 1,
                !.hist.busyAtZero = @ \/ (v <= 0 /\ w.page.submitting)]

tickUpdater(w, writeFails) ==
    LET v == tickValue(w.page.secondsLeft)
    IN  [w EXCEPT
           !.page.secondsLeft = Some(v),
           !.storage.timer = IF writeFails THEN @ ELSE Some(tickPersisted(v)),
           !.hist.ticks = @ + 1,
           !.hist.busyAtZero = @ \/ (v <= 0 /\ w.page.submitting)]

(***************************************************************************)
(* CameraPreview with attention detection (page.tsx:448-641).  Times are   *)
(* Date.now() values in milliseconds.                                      *)
(***************************************************************************)
awayThresholdMs == 5000

MaxViolations == 3

\* handleAttention (page.tsx:596-611) on the refs c at time t; onAway: the prop is given
handleAttentionKeepsStart(c, isLooking, t, onAway) ==
    IF ~isLooking
    THEN LET start == IF c.awayStart = None THEN Some(t) ELSE c.awayStart
             elapsed == t - (IF Val(start) # 0 THEN Val(start) ELSE t)
         IN  IF ~c.awayTriggered /\ elapsed >= awayThresholdMs
             THEN [c EXCEPT !.looking = isLooking, !.awayStart = start,
                            !.awayTriggered = TRUE,
                            !.onAwayCalls = IF onAway THEN @ + 1 ELSE @]
             ELSE [c EXCEPT !.looking = isLooking, !.awayStart = start]
    ELSE [c EXCEPT !.looking = isLooking, !.awayTriggered = FALSE]

handleAttentionNoLatch(c, isLooking, t, onAway) ==
    IF ~isLooking
    THEN LET start == IF c.awayStart = None THEN Some(t) ELSE c.awayStart
             elapsed == t - (IF Val(start) # 0 THEN Val(start) ELSE t)
         IN  IF elapsed >= awayThresholdMs
             THEN [c EXCEPT !.looking = isLooking, !.awayStart = start,
                            !.awayTriggered = TRUE,
                            !.onAwayCalls = IF onAway THEN @ + 1 ELSE @]
             ELSE [c EXCEPT !.looking = isLooking, !.awayStart = start]
    ELSE [c EXCEPT !.looking = isLooking, !.awayStart = None, !.awayTriggered = FALSE]

handleAttention(c, isLooking, t, onAway) ==
    IF ~isLooking
    THEN LET start == IF c.awayStart = None THEN Some(t) ELSE c.awayStart
             elapsed == t - (IF Val(start) # 0 THEN Val(start) ELSE t)
         IN  IF ~c.awayTriggered /\ elapsed >= awayThresholdMs
             THEN [c EXCEPT !.looking = isLooking, !.awayStart = start,
                            !.awayTriggered = TRUE,
                            !.onAwayCalls = IF onAway THEN @ + 1 ELSE @]
             ELSE [c EXCEPT !.looking = isLooking, !.awayStart = start]
    ELSE [c EXCEPT !.looking = isLooking, !.awayStart = None, !.awayTriggered = FALSE]

\* the refs and state of a mounted CameraPreview (page.tsx:475-477); onAwayCalls
\* counts the calls of the onAway prop
FreshRefs ==
    [looking |-> TRUE, awayStart |-> None, awayTriggered |-> FALSE, onAwayCalls |-> 0]

\* what the sequence of classified frames has been so far: the first and the last
\* Away frame of the current run, the onAway calls during it, the runs that lasted
\* longer than the threshold, the summed length of all runs, and whether every run
\* so far stayed below the threshold
FreshSeen ==
    [runStart |-> None, runLast |-> None, runCalls |-> 0, lapses |-> 0,
     awaySum |-> 0, shortOnly |-> TRUE]

runSpan(o) == IF IsSome(o.runStart) THEN Val(o.runLast) - Val(o.runStart) ELSE 0

seen(o, isLooking, t, calls) ==
    IF isLooking
    THEN [o EXCEPT !.runStart = None, !.runLast = None, !.runCalls = 0]
    ELSE LET start == IF IsSome(o.runStart) THEN Val(o.runStart) ELSE t
             span == t - start
         IN  [o EXCEPT
                !.runStart = Some(start),
                !.runLast = Some(t),
                !.runCalls = @ + calls,
                !.lapses = IF span > awayThresholdMs /\ runSpan(o) <= awayThresholdMs
                           THEN @ + 1 ELSE @,
                !.awaySum = @ + (span - runSpan(o)),
                !.shortOnly = @ /\ span < awayThresholdMs]

\* a CameraPreview used as InterviewPage uses it (page.tsx:312: no enableAttention,
\* no onAway), or one mounted with attention detection and an onAway callback
\* last: the results most recently handed to onResults
\* off: the disabled prop of a component whose parent toggles it; streamRef: the
\* ref of page.tsx:473; live: the streams with a live track; camReqs: the pending
\* getUserMedia calls, each with the cancelled flag of its effect run; dropped:
\* the streams that arrived after their run was cancelled
FreshCam(host) ==
    [host |-> host, clock |-> 100, refs |-> FreshRefs, seen |-> FreshSeen,
     last |-> None, off |-> FALSE, streamRef |-> None, live |-> {},
     camReqs |-> <<>>, asked |-> 0, dropped |-> 0]

\* the props of the component (page.tsx:312, 471)
cameraProps ==
    IF cam.host = "page"
    THEN [disabled |-> mediaDisabled(page), enableAttention |-> FALSE, onAway |-> FALSE]
    ELSE IF cam.host = "toggled"
    THEN [disabled |-> cam.off, enableAttention |-> TRUE, onAway |-> TRUE]
    ELSE [disabled |-> FALSE, enableAttention |-> TRUE, onAway |-> TRUE]

\* the detect loop of page.tsx:503-569 is running
detecting == ~cameraProps.disabled /\ cameraProps.enableAttention

(***************************************************************************)
(* UserRegistrationForm (page.tsx:731-971).  The value of an <input> is a  *)
(* string: a sequence of one-character strings for the number field.       *)
(***************************************************************************)
MinNumQuestions == 1

MaxNumQuestions == 10

\* Number(s) for the value of a number input: "" is 0, a malformed string is NaN (None)
Number(s) == IF s = <<>> THEN Some(0) ELSE parseInt(s)

\* x || 1 for a number x that may be NaN
OrOne(x) == IF IsSome(x) /\ Val(x) # 0 THEN Val(x) ELSE 1

\* onChange of the numQuestions input (page.tsx:845)
clampNumQuestionsNoFloor(v) == Min(MaxNumQuestions, OrOne(Number(v)))

clampNumQuestions(v) == Max(MinNumQuestions, Min(MaxNumQuestions, OrOne(Number(v))))

\* isFormValid (page.tsx:813)
isFormValidNumbersOnly(d) ==
    /\ d.numQuestions > 0
    /\ d.durationMinutes > 0

isFormValid(d) ==
    /\ d.name # ""
    /\ d.email # ""
    /\ d.domain # ""
    /\ d.numQuestions > 0
    /\ d.durationMinutes > 0

\* disabled of the submit button (page.tsx:941)
submitDisabled(f) == ~isFormValid(f.formData) \/ f.isSubmitting

\* handleSubmit up to the first fetch (page.tsx:765-777): the call keeps the formData
\* of the render it was created in
handleSubmit(f) ==
    [f EXCEPT
        !.isSubmitting = TRUE,
        !.call = Some([data |-> f.formData, stage |-> "register",
                       request |-> [body |-> f.formData]])]

\* catch and finally of handleSubmit (page.tsx:806-810)
submitFailed(f) == [f EXCEPT !.isSubmitting = FALSE, !.call = None]

\* handleSubmit from the register response to the second fetch (page.tsx:778-786);
\* user_id is regData.user_id
afterRegisterUnchecked(f, ok, user_id) ==
    LET d == Val(f.call).data
    IN  [f EXCEPT
           !.call = Some([data |-> d, stage |-> "generate",
                          request |-> [domain |-> d.domain,
                                       user_id |-> user_id,
                                       num_questions |-> String(d.numQuestions),
                                       duration_minutes |-> String(d.durationMinutes)]])]

afterRegister(f, ok, user_id) ==
    IF ~ok THEN submitFailed(f)
    ELSE LET d == Val(f.call).data
         IN  [f EXCEPT
                !.call = Some([data |-> d, stage |-> "generate",
                               request |-> [domain |-> d.domain,
                                            user_id |-> user_id,
                                            num_questions |-> String(d.numQuestions),
                                            duration_minutes |-> String(d.durationMinutes)]])]

\* handleSubmit from the generate-questions response on (page.tsx:787-810);
\* genData is the parsed response
afterGenerate(f, ok, genData) ==
    IF ~ok THEN submitFailed(f)
    ELSE LET d == Val(f.call).data
         IN  [f EXCEPT
                !.stored = Some([session_id |-> genData.session_id,
                                 questions |-> genData.questions,
                                 duration_minutes |->
                                     IF IsSome(genData.duration_minutes)
                                     THEN Val(genData.duration_minutes)
                                     ELSE d.durationMinutes,
                                 num_questions |-> d.numQuestions,
                                 user |-> [name |-> d.name, email |-> d.email]]),
                !.href = Some(genData.session_id),
                !.isSubmitting = FALSE,
                !.call = None]

\* useState initial values (page.tsx:756-763); call: the handleSubmit in progress;
\* stored: sessionStorage["interview:<session_id>"]; href: location.href was set;
\* gone: the document of the form was replaced; lastReg, lastGen, genOk: the
\* responses the server has given
FreshForm ==
    [formData |-> [name |-> "", email |-> "", domain |-> "",
                   numQuestions |-> 3, durationMinutes |-> 15],
     isSubmitting |-> FALSE,
     call |-> None,
     stored |-> None,
     href |-> None,
     gone |-> FALSE,
     lastReg |-> None,
     lastGen |-> None,
     genOk |-> FALSE]

InitForm == form = FreshForm

(***************************************************************************)
(* AudioControls with the disabled prop (part_004).  A MediaRecorder is    *)
(* [n, cb]: its serial number and the question index that the              *)
(* onTranscribed of its render writes to (page.tsx:165-171); recorders are *)
(* the ones recording, stt the ones stopped whose speech-to-text request   *)
(* is in flight.  An Audio element is its serial number.                   *)
(***************************************************************************)
\* useState / useRef initial values (part_004:14-19); off is the disabled prop
\* of a component mounted on its own; preReqs are the preamble fetches in flight
\* and sent the texts posted to text-to-speech by the variant of part_003;
\* answered lists the speech-to-text responses in the order they arrived, each
\* with the question index displayed when it arrived
FreshAudio(host) ==
    [host |-> host,
     off |-> FALSE,
     recording |-> FALSE,
     speaking |-> FALSE,
     micReqs |-> <<>>,
     recorders |-> {},
     mediaRecorderRef |-> None,
     made |-> 0,
     stt |-> {},
     ttsReqs |-> 0,
     playing |-> {},
     audioElRef |-> None,
     spoken |-> 0,
     preReqs |-> <<>>,
     sent |-> <<>>,
     answered |-> <<>>]

InitAudio == audio = FreshAudio("page")

\* the props InterviewPage passes (page.tsx:332-338), or those of a lone component
audioProps ==
    IF audio.host = "page"
    THEN [disabled |-> mediaDisabled(page), cb |-> page.idx]
    ELSE [disabled |-> audio.off, cb |-> page.idx]

\* the text speech-to-text hears in recording n
Heard(n) == CASE n = 1 -> "a" [] n = 2 -> "b" [] OTHER -> "c"

\* start() once getUserMedia has resolved (part_004:55-70); cb: the onTranscribed
\* of the render whose start() was called
startResolved(a, cb) ==
    [a EXCEPT
        !.recorders = @ \cup {[n |-> a.made + 1, cb |-> cb]},
        !.mediaRecorderRef = Some(a.made + 1),
        !.made = @ + 1,
        !.recording = TRUE]

\* stop() (part_004:147-152): mr.stop() fires onstop, which sends the recording to
\* speech-to-text; on a recorder that is inactive mr.stop() throws
stop(a) ==
    IF a.mediaRecorderRef = None THEN a
    ELSE LET mr == {r \in a.recorders : r.n = Val(a.mediaRecorderRef)}
         IN  IF mr = {} THEN a
             ELSE [a EXCEPT
                     !.recorders = @ \ mr,
                     !.stt = @ \cup mr,
                     !.recording = FALSE]

\* the effect of part_004:178-192, run when disabled has changed
disabledEffect(a, disabled) ==
    IF ~disabled THEN a
    ELSE LET a1 == IF a.recording THEN stop(a) ELSE a
             a2 == IF a.speaking /\ IsSome(a.audioElRef)
                   THEN [a1 EXCEPT !.playing = @ \ {Val(a.audioElRef)}]
                   ELSE a1
         IN  [a2 EXCEPT !.speaking = FALSE]

\* speak() after the text-to-speech fetch (part_004:38-47)
speakResolved(a, ok) ==
    IF ok
    THEN \* the new Audio is numbered by the fetches answered so far
         [a EXCEPT
            !.ttsReqs = @ - 1,
            !.audioElRef = Some(a.spoken - a.ttsReqs + 1),
            !.playing = @ \cup {a.spoken - a.ttsReqs + 1}]
    ELSE [a EXCEPT !.ttsReqs = @ - 1, !.speaking = FALSE]

(***************************************************************************)
(* State machine of the interview page.                                    *)
(***************************************************************************)
Texts == {"a"}

\* useState initial values (page.tsx:34-43, 218, 256); leaving: location.href was set.
\* permChecked (page.tsx:41) is only ever written, never read, and is left out.
FreshPage ==
    [idx |-> 0,
     transcripts |-> [k \in {} |-> ""],
     submitting |-> FALSE,
     submitError |-> None,
     finished |-> FALSE,
     permOk |-> FALSE,
     permDetail |-> [camera |-> "prompt", mic |-> "prompt"],
     secondsLeft |-> None,
     autoSubmitted |-> FALSE,
     leaving |-> FALSE]

Pools == {<<>>, <<"q1">>}

Durations ==
    {None,
     Some([num |-> 0, den |-> SecondsPerMinute]),
     Some([num |-> 0 - 1, den |-> SecondsPerMinute]),
     Some([num |-> MaxSecs, den |-> SecondsPerMinute])}

\* what the registration form stored for the session (page.tsx:792-801)
Sessions ==
    [questions : Pools, num_questions : {Some(1)}, duration_minutes : Durations]

W == [page |-> page, storage |-> storage, reqs |-> reqs, hist |-> hist]

Commit(w) ==
    /\ page' = w.page
    /\ storage' = w.storage
    /\ reqs' = w.reqs
    /\ hist' = w.hist

RemoveAt(q, i) == [k \in 1..(Len(q) - 1) |-> IF k < i THEN q[k] ELSE q[k + 1]]

\* bookkeeping when the document of the interview page goes away
Unloaded(h) ==
    [h EXCEPT
        !.prevLeft = IF IsSome(page.secondsLeft) THEN page.secondsLeft ELSE @,
        !.zeroBefore = @ \/ (IsSome(page.secondsLeft) /\ Val(page.secondsLeft) <= 0),
        !.autoCalls = 0]

\* the interventions so far that the model bounds
UserSteps == hist.sent.manual + hist.loads + hist.idle

InitPage ==
    /\ page = FreshPage
    /\ storage = [timer |-> None, timerMeta |-> None, result |-> None, answers |-> None]
    /\ reqs = <<>>
    /\ recs = {}
    /\ loc = "interview"
    /\ now = 0
    /\ hist = [sent |-> [manual |-> 0, auto |-> 0], autoCalls |-> 0, seeds |-> 0,
               ticks |-> 0, loads |-> 0, idle |-> 0, ok |-> FALSE,
               prevLeft |-> None, zeroBefore |-> FALSE, busyAtZero |-> FALSE,
               failed |-> FALSE, uncaught |-> FALSE, faults |-> 0]

InitCam == cam = FreshCam("page")

Init ==
    /\ initialData \in Sessions
    /\ InitPage
    /\ base = <<>>
    /\ count = None
    /\ out = <<>>
    /\ InitCam
    /\ InitForm
    /\ InitAudio

QVars == <<base, count, out>>

CamVars == <<cam>>

FormVars == <<form>>

AudioVars == <<audio>>

\* run() of the permission effect with the Permissions API (page.tsx:94-121)
PermissionQuery(d) ==
    /\ loc = "interview"
    /\ LET w1 == [W EXCEPT
                    !.page.permDetail = d,
                    !.page.permOk = (d.mic = "granted" /\ d.camera = "granted")]
           w2 == IF w1.page.permOk # page.permOk THEN timerInitEffect(w1, now) ELSE w1
       IN  Commit(autoSubmitEffect(w2))
    /\ UNCHANGED <<initialData, recs, loc, now, QVars, CamVars, FormVars, AudioVars>>

\* requestPermissions (page.tsx:133-163), behind the overlay of page.tsx:412
requestPermissions(d) ==
    /\ loc = "interview"
    /\ ~page.permOk
    /\ LET w1 == [W EXCEPT
                    !.page.permDetail = d,
                    !.page.permOk = (d.mic = "granted" /\ d.camera = "granted")]
           w2 == IF w1.page.permOk # page.permOk THEN timerInitEffect(w1, now) ELSE w1
       IN  Commit(autoSubmitEffect(w2))
    /\ UNCHANGED <<initialData, recs, loc, now, QVars, CamVars, FormVars, AudioVars>>

\* the interval callback (page.tsx:269-277) and the effect it triggers
Tick ==
    /\ loc = "interview"
    /\ intervalActive(page)
    /\ LET v == tickValue(page.secondsLeft)
           w1 == [W EXCEPT
                    !.page.secondsLeft = Some(v),
                    !.storage.timer = Some(tickPersisted(v)),
                    !.hist.ticks = @ + 1,
                    !.hist.busyAtZero = @ \/ (v <= 0 /\ page.submitting)]
       IN  Commit(autoSubmitEffect(w1))
    /\ now' = now + 1
    /\ UNCHANGED <<initialData, recs, loc, QVars, CamVars, FormVars, AudioVars>>

\* a second of wall-clock time in which no interval callback runs
TimePasses ==
    /\ UserSteps < MaxUserSteps
    /\ loc # "interview" \/ ~intervalActive(page)
    /\ now' = now + 1
    /\ hist' = [hist EXCEPT !.idle = @ + 1]
    /\ UNCHANGED <<initialData, page, storage, reqs, recs, loc, QVars, CamVars, FormVars, AudioVars>>

\* click on Finish Interview (page.tsx:369-375)
FinishClick ==
    /\ loc = "interview"
    /\ Len(questions) > 0
    /\ ~finishDisabled(page)
    /\ UserSteps < MaxUserSteps
    /\ Commit(autoSubmitEffect(onFinish(W, "manual")))
    /\ UNCHANGED <<initialData, recs, loc, now, QVars, CamVars, FormVars, AudioVars>>

\* the end of onFinish: location.href is set, finally runs (page.tsx:208-214)
finishNavigate(w, i) ==
    autoSubmitEffect([w EXCEPT
        !.page.leaving = TRUE,
        !.page.submitting = FALSE,
        !.reqs = RemoveAt(@, i)])

\* the catch and finally of onFinish for request i (page.tsx:189-192, 210-214)
onFinishFailedClearsTimer(w, i) ==
    [w EXCEPT
        !.page.submitError = Some("error"),
        !.page.submitting = FALSE,
        !.storage.timer = None,
        !.storage.timerMeta = None,
        !.reqs = RemoveAt(@, i),
        !.hist.failed = TRUE]

onFinishFailed(w, i) ==
    [w EXCEPT
        !.page.submitError = Some("error"),
        !.page.submitting = FALSE,
        !.reqs = RemoveAt(@, i),
        !.hist.failed = TRUE]

\* fetch rejects or the response is not ok, and the effect that follows
SubmitFails(i) ==
    /\ loc = "interview"
    /\ i \in 1..Len(reqs)
    /\ reqs[i].stage = "pending"
    /\ Commit(autoSubmitEffect(onFinishFailed(W, i)))
    /\ UNCHANGED <<initialData, recs, loc, now, QVars, CamVars, FormVars, AudioVars>>

\* the response is ok (page.tsx:193-209); waits: less than MIN_DELAY_MS has elapsed
SubmitOk(i, waits) ==
    /\ loc = "interview"
    /\ i \in 1..Len(reqs)
    /\ reqs[i].stage = "pending"
    /\ LET w1 == [W EXCEPT
                    !.storage.result = Some("result"),
                    !.storage.answers = Some(reqs[i].answers),
                    !.storage.timer = None,
                    !.storage.timerMeta = None,
                    !.hist.ok = TRUE]
       IN  IF waits
           THEN Commit([w1 EXCEPT !.reqs[i].stage = "delay"])
           ELSE Commit(finishNavigate(w1, i))
    /\ UNCHANGED <<initialData, recs, loc, now, QVars, CamVars, FormVars, AudioVars>>

\* the timeout of page.tsx:205 fires
DelayElapsed(i) ==
    /\ loc = "interview"
    /\ i \in 1..Len(reqs)
    /\ reqs[i].stage = "delay"
    /\ Commit(finishNavigate(W, i))
    /\ UNCHANGED <<initialData, recs, loc, now, QVars, CamVars, FormVars, AudioVars>>

\* the navigation started at page.tsx:208 commits: the results page replaces the document
NavCommit ==
    /\ loc = "interview"
    /\ page.leaving
    /\ loc' = "result"
    /\ page' = FreshPage
    /\ reqs' = <<>>
    /\ recs' = {}
    /\ hist' = Unloaded(hist)
    /\ UNCHANGED <<initialData, storage, now, QVars, CamVars, FormVars, AudioVars>>

\* the interview page is loaded again (reload, or Back from the results page)
Reload ==
    /\ UserSteps < MaxUserSteps
    /\ loc' = "interview"
    /\ page' = FreshPage
    /\ reqs' = <<>>
    /\ recs' = {}
    /\ hist' = [(IF loc = "interview" THEN Unloaded(hist) ELSE hist) EXCEPT !.loads = @ + 1]
    /\ UNCHANGED <<initialData, storage, now, QVars, CamVars, FormVars, AudioVars>>

\* the page after a click on Previous as rendered with p (page.tsx:355-361): a
\* disabled button does nothing
afterPrevious(p) ==
    IF ~p.permOk \/ p.idx = 0
    THEN p
    ELSE [p EXCEPT !.idx = Max(0, @ - 1)]

afterNextUnbounded(p, n) ==
    IF ~p.permOk
    THEN p
    ELSE [p EXCEPT !.idx = @ + 1]

\* the page after a click on Next as rendered with p and n questions
\* (page.tsx:362-368)
afterNext(p, n) ==
    IF ~p.permOk \/ p.idx >= n - 1
    THEN p
    ELSE [p EXCEPT !.idx = Min(n - 1, @ + 1)]

\* Previous (page.tsx:355-361)
Previous ==
    /\ loc = "interview"
    /\ Len(questions) > 0
    /\ afterPrevious(page) # page
    /\ page' = afterPrevious(page)
    /\ UNCHANGED <<initialData, storage, reqs, recs, loc, now, hist, QVars, CamVars, FormVars, AudioVars>>

\* Next (page.tsx:362-368)
NextQuestion ==
    /\ loc = "interview"
    /\ Len(questions) > 0
    /\ afterNext(page, Len(questions)) # page
    /\ page' = afterNext(page, Len(questions))
    /\ UNCHANGED <<initialData, storage, reqs, recs, loc, now, hist, QVars, CamVars, FormVars, AudioVars>>

\* AudioControls start(): the recorder keeps the onTranscribed of this render
StartRecording ==
    /\ loc = "interview"
    /\ Len(questions) > 0
    /\ ~mediaDisabled(page)
    /\ recs' = recs \cup {page.idx}
    /\ UNCHANGED <<initialData, page, storage, reqs, loc, now, hist, QVars, CamVars, FormVars, AudioVars>>

\* speech-to-text answers with a transcription: onTranscribed(text)
Transcribed(i, text) ==
    /\ loc = "interview"
    /\ i \in recs
    /\ recs' = recs \ {i}
    /\ page' = [page EXCEPT !.transcripts = setTranscript(@, i, text)]
    /\ UNCHANGED <<initialData, storage, reqs, loc, now, hist, QVars, CamVars, FormVars, AudioVars>>

\* speech-to-text answers with no transcription: no callback
TranscriptionEmpty(i) ==
    /\ loc = "interview"
    /\ i \in recs
    /\ recs' = recs \ {i}
    /\ UNCHANGED <<initialData, page, storage, reqs, loc, now, hist, QVars, CamVars, FormVars, AudioVars>>

Next ==
    \/ \E d \in PermOutcomes : PermissionQuery(d)
    \/ \E d \in RequestOutcomes : requestPermissions(d)
    \/ Tick
    \/ TimePasses
    \/ FinishClick
    \/ \E i \in 1..Len(reqs) : SubmitFails(i)
    \/ \E i \in 1..Len(reqs), waits \in BOOLEAN : SubmitOk(i, waits)
    \/ \E i \in 1..Len(reqs) : DelayElapsed(i)
    \/ NavCommit
    \/ Reload
    \/ StartRecording
    \/ \E i \in recs, text \in Texts : Transcribed(i, text)
    \/ \E i \in recs : TranscriptionEmpty(i)

Spec == Init /\ [][Next]_vars

PageVars == <<initialData, page, storage, reqs, recs, loc, now, hist>>

(***************************************************************************)
(* QSpec: buildQuestions applied to every pool of at most MaxPool          *)
(* questions and every requested count up to MaxCount (or undefined).      *)
(***************************************************************************)
RECURSIVE SeqsUpTo(_, _)
SeqsUpTo(S, n) ==
    IF n = 0 THEN {<<>>}
    ELSE LET shorter == SeqsUpTo(S, n - 1)
         IN  shorter \cup {Append(q, x) : q \in shorter, x \in S}

QInit ==
    /\ initialData = [questions |-> <<>>, num_questions |-> None, duration_minutes |-> None]
    /\ InitPage
    /\ base \in SeqsUpTo({"q1", "q2"}, MaxPool)
    /\ count \in {None} \cup {Some(n) : n \in 0..MaxCount}
    /\ out = None
    /\ InitCam
    /\ InitForm
    /\ InitAudio

\* const questions = buildQuestions(questionsRaw, requestedNum)   (page.tsx:56)
Build ==
    /\ out = None
    /\ out' = Some(buildQuestions(base, count))
    /\ UNCHANGED <<base, count, PageVars, CamVars, FormVars, AudioVars>>

QNext == Build

QSpec == QInit /\ [][QNext]_vars

\* C9 as claimed: for every pool size P (including P = 0) and every requested
\* count N >= 1 the presented list has exactly N entries.
C9_ExactlyN_AnyPool ==
    (IsSome(out) /\ IsSome(count) /\ Val(count) >= 1)
        => Len(Val(out)) = Val(count)

\* C9 amended: for every non-empty pool (P >= 1) and every requested count N >= 1
\* the presented list has exactly N entries; for an empty pool it has none.
C9_ExactlyN_NonEmptyPool ==
    (IsSome(out) /\ IsSome(count) /\ Val(count) >= 1)
        => Len(Val(out)) = (IF Len(base) >= 1 THEN Val(count) ELSE 0)

C9_Witness ==
    /\ IsSome(out)
    /\ IsSome(count)
    /\ Len(base) >= 1
    /\ Val(count) > Len(base)
    /\ Len(Val(out)) = Val(count)

\* C10: for a non-empty pool of size P and a requested count N, presented question
\* i is pool element i mod P, for all 0 <= i < N.
C10_CyclicOrder ==
    (IsSome(out) /\ IsSome(count) /\ Len(base) >= 1)
        => \A i \in 0..(Val(count) - 1) :
              /\ i + 1 \in DOMAIN Val(out)
              /\ Val(out)[i + 1] = base[(i % Len(base)) + 1]

C10_Witness ==
    /\ IsSome(out)
    /\ base = <<"q1", "q2">>
    /\ count = Some(3)
    /\ Val(out) = <<"q1", "q2", "q1">>

(***************************************************************************)
(* Properties of the countdown and of submission, under Spec.              *)
(***************************************************************************)
secondsLeft == page.secondsLeft

\* C1 as claimed, in the runs where no request fails (so that no retry is mistaken
\* for a duplicate): when the manual Finish and the countdown's expiry both occur
\* in one session, only the first trigger sends a submit-all request; the other
\* sends nothing.
C1_OnlyFirstTriggerSends ==
    ~hist.failed => ~(hist.sent.manual >= 1 /\ hist.sent.auto >= 1)

\* C2: within one page load the timer-expiry path calls onFinish at most once.
C2_AutoSubmitAtMostOncePerLoad ==
    hist.autoCalls <= 1

\* the expiry path has submitted once, that submission failed, and the page is
\* still at zero and idle
C2_Witness ==
    /\ loc = "interview"
    /\ hist.autoCalls = 1
    /\ IsSome(secondsLeft)
    /\ Val(secondsLeft) <= 0
    /\ page.autoSubmitted
    /\ ~page.submitting
    /\ IsSome(page.submitError)
    /\ ~hist.ok

C5_DerivedFromWallClock ==
    (loc = "interview" /\ IsSome(secondsLeft) /\ IsSome(storage.timerMeta))
        => Val(secondsLeft) =
              Max(0, expectedSecs(durationMinutes)
                       - (now - Val(storage.timerMeta).startedAt))

\* C6 as claimed: on a page loaded after the countdown was reduced to 0, answer
\* collection is disabled, and a countdown that is shown is at <= 0 with the
\* auto-submission triggered.
C6_ZeroSurvivesReload ==
    (loc = "interview" /\ hist.zeroBefore)
        => /\ mediaDisabled(page)
           /\ IsSome(secondsLeft) => (Val(secondsLeft) <= 0 /\ page.autoSubmitted)

\* C7: with an allotted duration of zero or unset there is no countdown, nothing
\* is in the timer keys, no automatic submission is issued, and only a manual
\* Finish submits.
C7_NoDurationNoCountdown ==
    (expectedSecs(durationMinutes) = 0)
        => /\ secondsLeft = None
           /\ storage.timer = None
           /\ storage.timerMeta = None
           /\ hist.sent.auto = 0
           /\ hist.seeds = 0
           /\ \A i \in 1..Len(reqs) : reqs[i].by = "manual"
           /\ hist.ok => hist.sent.manual >= 1

\* permissions granted (the init effect ran), time has passed, and the session
\* was ended by a manual Finish
C7_Witness ==
    /\ expectedSecs(durationMinutes) = 0
    /\ IsSome(durationMinutes)
    /\ hist.idle >= 1
    /\ hist.ok
    /\ hist.sent.manual >= 1

\* C8: the countdown is seeded with the allotted duration in seconds and, until a
\* submission succeeds, every interval tick lowers it by exactly one: seconds
\* remaining = seeded duration - number of ticks fired.
C8_SeedAndExactTicks ==
    (loc = "interview" /\ Len(questions) > 0 /\ ~hist.ok /\ IsSome(secondsLeft))
        => /\ Val(secondsLeft) = expectedSecs(durationMinutes) - hist.ticks
           /\ hist.seeds = 1
           /\ Val(secondsLeft) >= 0

\* two ticks have fired in an in-progress session
C8_Witness ==
    /\ loc = "interview"
    /\ Len(questions) > 0
    /\ ~hist.ok
    /\ hist.ticks = 2
    /\ secondsLeft = Some(expectedSecs(durationMinutes) - 2)
    /\ page.permOk

(***************************************************************************)
(* LiveSpec: one page load (no reload), in which the interval keeps firing *)
(* while it exists and every pending request or timeout is answered.       *)
(***************************************************************************)
Responses ==
    \/ \E i \in 1..Len(reqs) : SubmitFails(i)
    \/ \E i \in 1..Len(reqs), waits \in BOOLEAN : SubmitOk(i, waits)
    \/ \E i \in 1..Len(reqs) : DelayElapsed(i)

LiveNext ==
    \/ \E d \in PermOutcomes : PermissionQuery(d)
    \/ \E d \in RequestOutcomes : requestPermissions(d)
    \/ Tick
    \/ FinishClick
    \/ Responses
    \/ NavCommit
    \/ StartRecording
    \/ \E i \in recs, text \in Texts : Transcribed(i, text)

LiveInit ==
    /\ Init
    /\ expectedSecs(durationMinutes) > 0
    /\ Len(questions) > 0

LiveSpec == LiveInit /\ [][LiveNext]_vars /\ WF_vars(Tick) /\ WF_vars(Responses)

\* C3: whenever the countdown is at zero and no submission has succeeded, a
\* submit-all request of the expiry path is eventually issued (or a submission
\* succeeds), also when a manual submission was in flight at expiry and failed;
\* and the request the expiry path issues carries the answers stored at that
\* moment.
C3_ExpiryEventuallySubmits ==
    /\ (loc = "interview" /\ IsSome(secondsLeft) /\ Val(secondsLeft) <= 0 /\ ~hist.ok)
          ~> (hist.autoCalls >= 1 \/ hist.ok)
    /\ [][hist.sent.auto' > hist.sent.auto
            => /\ reqs' # <<>>
               /\ reqs'[Len(reqs')].by = "auto"
               /\ reqs'[Len(reqs')].stage = "pending"
               /\ reqs'[Len(reqs')].answers = answersOf(page.transcripts)]_vars

\* a manual submission was in flight when the countdown reached zero, it failed,
\* and the expiry path then issued its request with the recorded answer
C3_Witness ==
    /\ hist.busyAtZero
    /\ hist.failed
    /\ ~hist.ok
    /\ hist.sent.auto = 1
    /\ Len(reqs) = 1
    /\ reqs[1].by = "auto"
    /\ reqs[1].answers = <<"a">>

(***************************************************************************)
(* AnswerSpec: a session of MaxQuestions questions drawn from a pool of    *)
(* two, untimed or of one second, with navigation between the questions,   *)
(* recordings, and both ways of submitting.                                *)
(***************************************************************************)
AnswerSessions ==
    [questions : {<<"q1", "q2">>},
     num_questions : {Some(MaxQuestions)},
     duration_minutes : {None, Some([num |-> 1, den |-> SecondsPerMinute])}]

AnswerInit ==
    /\ initialData \in AnswerSessions
    /\ InitPage
    /\ base = <<>>
    /\ count = None
    /\ out = <<>>
    /\ InitCam
    /\ InitForm
    /\ InitAudio

AnswerNext ==
    \/ \E d \in PermOutcomes : PermissionQuery(d)
    \/ Tick
    \/ FinishClick
    \/ \E i \in 1..Len(reqs) : SubmitFails(i)
    \/ \E i \in 1..Len(reqs) : SubmitOk(i, FALSE)
    \/ NavCommit
    \/ Previous
    \/ NextQuestion
    \/ StartRecording
    \/ \E i \in recs, text \in Texts : Transcribed(i, text)
    \/ \E i \in recs : TranscriptionEmpty(i)

AnswerSpec == AnswerInit /\ [][AnswerNext]_vars

\* C11: every step that sends a submit-all request (manual or automatic) sends an
\* answers list as long as the list of presented questions, whose entry i is the
\* transcript stored for question i at that moment, or "" if there is none.
C11_AnswersAlignedWithQuestions ==
    [][(hist.sent.manual' + hist.sent.auto' > hist.sent.manual + hist.sent.auto)
          => LET r == reqs'[Len(reqs')]
             IN  /\ r.stage = "pending"
                 /\ Len(r.answers) = Len(questions)
                 /\ \A i \in 0..(Len(questions) - 1) :
                       r.answers[i + 1] = (IF i \in DOMAIN page.transcripts
                                           THEN page.transcripts[i] ELSE "")]_vars

\* the expiry path submitted while only the second question had a transcript
C11_Witness ==
    /\ Len(questions) >= 2
    /\ \E i \in 1..Len(reqs) :
          /\ reqs[i].by = "auto"
          /\ Len(reqs[i].answers) = Len(questions)
          /\ reqs[i].answers[1] = ""
          /\ reqs[i].answers[2] = "a"

(***************************************************************************)
(* AttnSpec: a CameraPreview mounted with attention detection and an       *)
(* onAway callback, fed classified frames at increasing times.             *)
(***************************************************************************)
\* the time from one classified frame to the next, in milliseconds
FrameGaps == {100, 4900}

\* the camera streams and a frame shows the candidate looking or away; onResults
\* and handleAttention (page.tsx:532-554) run when the detect loop does
Frame(isLooking, gap) ==
    /\ ~cameraProps.disabled
    /\ LET t == cam.clock + gap
           refs1 == IF detecting
                    THEN handleAttention(cam.refs, isLooking, t, cameraProps.onAway)
                    ELSE cam.refs
       IN  cam' = [cam EXCEPT
                     !.clock = t,
                     !.refs = refs1,
                     !.seen = seen(@, isLooking, t,
                                   refs1.onAwayCalls - cam.refs.onAwayCalls)]
    /\ UNCHANGED <<PageVars, QVars, FormVars, AudioVars>>

AttnInit ==
    /\ initialData = [questions |-> <<>>, num_questions |-> None, duration_minutes |-> None]
    /\ InitPage
    /\ base = <<>>
    /\ count = None
    /\ out = <<>>
    /\ cam = FreshCam("alone")
    /\ InitForm
    /\ InitAudio

AttnNext ==
    \E isLooking \in BOOLEAN, gap \in FrameGaps :
        cam.clock + gap <= MaxClock /\ Frame(isLooking, gap)

AttnSpec == AttnInit /\ [][AttnNext]_vars

\* C12: as long as every continuous run of Away frames has lasted less than the
\* threshold, onAway has never been called, however large the summed away time.
C12_ShortRunsNeverEmit ==
    cam.seen.shortOnly => cam.refs.onAwayCalls = 0

\* runs of Away frames that sum to more than the threshold, each shorter than it,
\* and the candidate is looking again
C12_Witness ==
    /\ cam.seen.shortOnly
    /\ cam.seen.awaySum > awayThresholdMs
    /\ cam.seen.runStart = None
    /\ cam.refs.looking
    /\ cam.refs.onAwayCalls = 0

\* C13: within one continuous run of Away frames onAway is called at most once, and
\* exactly once as soon as the run has lasted longer than the threshold; every run
\* that lasted longer than the threshold has emitted, also after earlier ones.
C13_OneViolationPerLapse ==
    /\ cam.seen.runCalls <= 1
    /\ runSpan(cam.seen) > awayThresholdMs => cam.seen.runCalls = 1
    /\ cam.refs.onAwayCalls >= cam.seen.lapses

\* a second lapse, after a Looking frame, has emitted again, and Away frames kept
\* arriving after its emission
C13_Witness ==
    /\ cam.seen.lapses = 2
    /\ cam.refs.onAwayCalls = 2
    /\ runSpan(cam.seen) > awayThresholdMs
    /\ cam.seen.runCalls = 1

\* C22 as claimed: onAway is called only at a frame at which the continuous Away
\* time observed so far is strictly greater than the threshold; at a frame where
\* it is less than or equal to the threshold nothing is emitted.
C22_EmitsOnlyAboveThreshold ==
    [][cam'.refs.onAwayCalls > cam.refs.onAwayCalls
          => runSpan(cam'.seen) > awayThresholdMs]_vars

(***************************************************************************)
(* DetectSpec: the same CameraPreview, fed the results of FaceMesh.  A     *)
(* results value is [faces |-> sequence of landmark lists]; a landmark     *)
(* list maps landmark indexes to their normalised x in thousandths.        *)
(***************************************************************************)
\* videoRef.current.videoWidth || 640   (page.tsx:539)
videoWidth == 640

LeftEye == 33
RightEye == 263
NoseTip == 1

Abs(x) == IF x < 0 THEN 0 - x ELSE x

\* results.multiFaceLandmarks?.[0] with the landmarks 33, 263 and 1 (page.tsx:534-547)
hasLandmarks(results) ==
    /\ Len(results.faces) > 0
    /\ {LeftEye, RightEye, NoseTip} \subseteq DOMAIN results.faces[1]

\* isLooking of page.tsx:548-552, on x coordinates in thousandths of a pixel:
\* |nx - midx| <= max(30, 0.6 * max(1, |rx - lx|)), both sides times 10000
isLookingOf(list) ==
    LET lx == list[LeftEye] * videoWidth
        rx == list[RightEye] * videoWidth
        nx == list[NoseTip] * videoWidth
    IN  5 * Abs(2 * nx - (lx + rx)) <= Max(300000, 6 * Max(1000, Abs(rx - lx)))

\* onResults (page.tsx:532-554)
onResultsIgnoresNoFace(c, results, t, onAway) ==
    IF ~hasLandmarks(results)
    THEN c
    ELSE handleAttention(c, isLookingOf(results.faces[1]), t, onAway)

onResults(c, results, t, onAway) ==
    IF ~hasLandmarks(results)
    THEN handleAttention(c, FALSE, t, onAway)
    ELSE handleAttention(c, isLookingOf(results.faces[1]), t, onAway)

\* what FaceMesh reports for a frame: no face, a face without the nose landmark,
\* a face turned to the camera, a face turned aside
FrameResults ==
    {[faces |-> <<>>],
     [faces |-> <<(LeftEye :> 400) @@ (RightEye :> 600)>>],
     [faces |-> <<(LeftEye :> 400) @@ (RightEye :> 600) @@ (NoseTip :> 500)>>],
     [faces |-> <<(LeftEye :> 400) @@ (RightEye :> 600) @@ (NoseTip :> 800)>>]}

\* FaceMesh hands the results of a frame to onResults
Results(results, gap) ==
    /\ detecting
    /\ LET t == cam.clock + gap
           refs1 == onResults(cam.refs, results, t, cameraProps.onAway)
       IN  cam' = [cam EXCEPT
                     !.clock = t,
                     !.refs = refs1,
                     !.seen = seen(@, refs1.looking, t,
                                   refs1.onAwayCalls - cam.refs.onAwayCalls),
                     !.last = Some(results)]
    /\ UNCHANGED <<PageVars, QVars, FormVars, AudioVars>>

\* the time from one result of FaceMesh to the next, in milliseconds
ResultGaps == {1000, 2500}

DetectNext ==
    \E results \in FrameResults, gap \in ResultGaps :
        cam.clock + gap <= MaxClock /\ Results(results, gap)

DetectSpec == AttnInit /\ [][DetectNext]_vars

\* C23: a frame with no face, or without the required landmarks, is treated as
\* Away: after it the monitor is not Looking and the away clock runs, started at
\* this frame or continued from the frame where it started; and undetected frames
\* spanning the threshold have the violation emitted.
C23_UndetectedIsAway ==
    /\ [](IsSome(cam.last) /\ ~hasLandmarks(Val(cam.last))
            => /\ ~cam.refs.looking
               /\ IsSome(cam.refs.awayStart)
               /\ runSpan(cam.seen) >= awayThresholdMs => cam.refs.onAwayCalls >= 1)
    /\ [][IsSome(cam'.last) /\ ~hasLandmarks(Val(cam'.last))
            => cam'.refs.awayStart =
                 IF IsSome(cam.refs.awayStart) THEN cam.refs.awayStart
                 ELSE Some(cam'.clock)]_vars

\* FaceMesh lost the candidate for the length of the threshold, first without a
\* face and then without the nose landmark, and the violation was emitted
C23_Witness ==
    /\ IsSome(cam.last)
    /\ Len(Val(cam.last).faces) = 1
    /\ ~hasLandmarks(Val(cam.last))
    /\ cam.seen.runCalls = 1
    /\ cam.refs.onAwayCalls = 1
    /\ runSpan(cam.seen) >= awayThresholdMs
    /\ ~cam.refs.looking

(***************************************************************************)
(* IntegritySpec: the interview page with its camera preview, an untimed   *)
(* session of one question, and a candidate who looks away.                *)
(***************************************************************************)
\* the time from one frame to the next explored with the page, in milliseconds
LapseGaps == {5100}

IntegrityInit ==
    /\ initialData = [questions |-> <<"q1">>, num_questions |-> Some(1),
                      duration_minutes |-> None]
    /\ InitPage
    /\ base = <<>>
    /\ count = None
    /\ out = <<>>
    /\ InitCam
    /\ InitForm
    /\ InitAudio

IntegrityNext ==
    \/ \E d \in PermOutcomes : PermissionQuery(d)
    \/ \E isLooking \in BOOLEAN, gap \in LapseGaps :
            cam.clock + gap <= MaxLapseClock /\ Frame(isLooking, gap)
    \/ StartRecording
    \/ \E i \in recs, text \in Texts : Transcribed(i, text)

IntegritySpec == IntegrityInit /\ [][IntegrityNext]_vars

\* C14 as claimed: once the candidate's lapses longer than the threshold number
\* MaxViolations, the interview is no longer in progress: no recording is started,
\* no transcript is stored and no submission is accepted any more.
C14_TerminatedAfterMaxViolations ==
    [][cam.seen.lapses >= MaxViolations
          => /\ recs' \subseteq recs
             /\ page'.transcripts = page.transcripts
             /\ Len(reqs') <= Len(reqs)]_vars

(***************************************************************************)
(* FormSpec: the registration form, edited and submitted, and the two      *)
(* requests of handleSubmit answered by the server.                        *)
(***************************************************************************)
\* values typed into the number input, and options chosen in the select
NumberInputs == {<<>>, <<"0">>, <<"-", "2">>, <<"7">>, <<"1", "1">>}

DurationChoices == {10, 60}

\* what the server answers to register and to generate-questions
RegResponses ==
    {[ok |-> TRUE, user_id |-> Some("u1")],
     [ok |-> TRUE, user_id |-> Some("u2")],
     [ok |-> FALSE, user_id |-> None]}

GenResponses ==
    {[ok |-> TRUE, data |-> [session_id |-> "s1", questions |-> <<"q1">>,
                             duration_minutes |-> None]],
     [ok |-> TRUE, data |-> [session_id |-> "s1", questions |-> <<>>,
                             duration_minutes |-> Some(5)]],
     [ok |-> FALSE, data |-> [session_id |-> "", questions |-> <<>>,
                              duration_minutes |-> None]]}

\* onChange of the name, email and domain inputs (page.tsx:880, 896, 928)
EditName(v) ==
    /\ ~form.gone
    /\ form' = [form EXCEPT !.formData.name = v]
    /\ UNCHANGED <<PageVars, QVars, CamVars, AudioVars>>

EditEmail(v) ==
    /\ ~form.gone
    /\ form' = [form EXCEPT !.formData.email = v]
    /\ UNCHANGED <<PageVars, QVars, CamVars, AudioVars>>

SelectDomain(v) ==
    /\ ~form.gone
    /\ form' = [form EXCEPT !.formData.domain = v]
    /\ UNCHANGED <<PageVars, QVars, CamVars, AudioVars>>

\* onChange of the numQuestions input (page.tsx:845)
EditNumQuestions(v) ==
    /\ ~form.gone
    /\ form' = [form EXCEPT !.formData.numQuestions = clampNumQuestions(v)]
    /\ UNCHANGED <<PageVars, QVars, CamVars, AudioVars>>

\* onChange of the durationMinutes select (page.tsx:859)
SelectDuration(v) ==
    /\ ~form.gone
    /\ form' = [form EXCEPT !.formData.durationMinutes = v]
    /\ UNCHANGED <<PageVars, QVars, CamVars, AudioVars>>

\* the submit button is clicked (page.tsx:832, 939-941)
SubmitForm ==
    /\ ~form.gone
    /\ ~submitDisabled(form)
    /\ form' = handleSubmit(form)
    /\ UNCHANGED <<PageVars, QVars, CamVars, AudioVars>>

\* the register request is answered
RegisterResponds(resp) ==
    /\ ~form.gone
    /\ IsSome(form.call)
    /\ Val(form.call).stage = "register"
    /\ form' = [afterRegister(form, resp.ok, resp.user_id) EXCEPT !.lastReg = Some(resp)]
    /\ UNCHANGED <<PageVars, QVars, CamVars, AudioVars>>

\* the generate-questions request is answered
GenerateResponds(resp) ==
    /\ ~form.gone
    /\ IsSome(form.call)
    /\ Val(form.call).stage = "generate"
    /\ form' = [afterGenerate(form, resp.ok, resp.data) EXCEPT
                   !.lastGen = Some(resp),
                   !.genOk = @ \/ resp.ok]
    /\ UNCHANGED <<PageVars, QVars, CamVars, AudioVars>>

\* the navigation started at page.tsx:805 commits: the form's document is replaced
FormUnload ==
    /\ ~form.gone
    /\ IsSome(form.href)
    /\ form' = [form EXCEPT !.gone = TRUE, !.call = None]
    /\ UNCHANGED <<PageVars, QVars, CamVars, AudioVars>>

FormNext ==
    \/ \E v \in {"", "n"} : EditName(v)
    \/ \E v \in {"", "e"} : EditEmail(v)
    \/ \E v \in {"nlp"} : SelectDomain(v)
    \/ \E v \in NumberInputs : EditNumQuestions(v)
    \/ \E v \in DurationChoices : SelectDuration(v)
    \/ SubmitForm
    \/ \E resp \in RegResponses : RegisterResponds(resp)
    \/ \E resp \in GenResponses : GenerateResponds(resp)
    \/ FormUnload

FormInit ==
    /\ initialData = [questions |-> <<>>, num_questions |-> None, duration_minutes |-> None]
    /\ InitPage
    /\ base = <<>>
    /\ count = None
    /\ out = <<>>
    /\ InitCam
    /\ InitForm
    /\ InitAudio

FormSpec == FormInit /\ [][FormNext]_vars

\* C15: a handleSubmit in progress was started from a form whose name, email and
\* domain were set and whose two numbers were > 0, and the generate-questions
\* request it sends carries a question count > 0 and a duration > 0.
C15_OnlyValidFormsAreSent ==
    IsSome(form.call)
        => LET c == Val(form.call)
           IN  /\ c.data.name # ""
               /\ c.data.email # ""
               /\ c.data.domain # ""
               /\ c.data.numQuestions > 0
               /\ c.data.durationMinutes > 0
               /\ c.stage = "generate"
                     => /\ OrZero(parseInt(c.request.num_questions)) > 0
                        /\ OrZero(parseInt(c.request.duration_minutes)) > 0

\* a generate-questions request is in flight after the count was typed as 0 and the
\* name was cleared again
C15_Witness ==
    /\ IsSome(form.call)
    /\ Val(form.call).stage = "generate"
    /\ Val(form.call).request.num_questions = <<"1">>
    /\ Val(form.call).request.duration_minutes = <<"6", "0">>
    /\ form.formData.name = ""

\* C16: the question count held by the form, the one a handleSubmit in progress
\* started from, and the one sent to generate-questions are all within 1..10.
C16_CountClamped ==
    /\ form.formData.numQuestions \in MinNumQuestions..MaxNumQuestions
    /\ IsSome(form.call)
          => /\ Val(form.call).data.numQuestions \in MinNumQuestions..MaxNumQuestions
             /\ Val(form.call).stage = "generate"
                   => OrZero(parseInt(Val(form.call).request.num_questions))
                          \in MinNumQuestions..MaxNumQuestions

\* both ends of the range were reached by clamping: 11 was typed before the submit
\* and sent as 10, and a value below 1 was typed afterwards
C16_Witness ==
    /\ form.formData.numQuestions = MinNumQuestions
    /\ IsSome(form.call)
    /\ Val(form.call).stage = "generate"
    /\ Val(form.call).request.num_questions = <<"1", "0">>

\* C17: a generate-questions request is in flight only after the registration
\* answered ok and carries the user id of that answer; session data is stored and
\* the navigation started only in the step in which generate-questions answers ok,
\* with the session id and the questions of that answer; a failed answer of either
\* request stores nothing and navigates nowhere.
C17_StartIsOrdered ==
    /\ [](IsSome(form.call) /\ Val(form.call).stage = "generate"
            => /\ IsSome(form.lastReg)
               /\ Val(form.lastReg).ok
               /\ Val(form.call).request.user_id = Val(form.lastReg).user_id)
    /\ []((IsSome(form.stored) \/ IsSome(form.href)) => form.genOk)
    /\ [][(form'.stored # form.stored \/ form'.href # form.href)
            => /\ IsSome(form.call)
               /\ Val(form.call).stage = "generate"
               /\ IsSome(form'.lastGen)
               /\ Val(form'.lastGen).ok
               /\ Val(form'.stored).session_id = Val(form'.lastGen).data.session_id
               /\ Val(form'.stored).questions = Val(form'.lastGen).data.questions
               /\ form'.href = Some(Val(form'.lastGen).data.session_id)]_vars
    /\ [][(form'.lastReg # form.lastReg /\ ~Val(form'.lastReg).ok)
            => (form'.call = None /\ form'.stored = form.stored /\ form'.href = form.href)]_vars
    /\ [][(form'.lastGen # form.lastGen /\ ~Val(form'.lastGen).ok)
            => (form'.stored = form.stored /\ form'.href = form.href)]_vars

\* a first attempt failed at registration, a second one was registered as u2, its
\* generate-questions succeeded and the session was stored
C17_Witness ==
    /\ IsSome(form.lastReg)
    /\ Val(form.lastReg).user_id = Some("u2")
    /\ form.genOk
    /\ IsSome(form.stored)
    /\ form.href = Some("s1")
    /\ Val(form.stored).duration_minutes = 60
    /\ ~form.gone

(***************************************************************************)
(* Further properties of the interview page, under Spec.                   *)
(***************************************************************************)
\* C18 as claimed: while the session has no loaded questions, no recording is in
\* progress, no transcript is stored and no submit-all request, manual or
\* automatic, has been issued.
C18_NothingWithoutQuestions ==
    Len(questions) = 0
        => /\ recs = {}
           /\ DOMAIN page.transcripts = {}
           /\ hist.sent.manual = 0
           /\ hist.sent.auto = 0

\* C19 as claimed: once a submission has succeeded, no later step changes the
\* result or the answers stored for the session.
C19_TerminalAfterSuccess ==
    [][hist.ok => /\ storage'.result = storage.result
                  /\ storage'.answers = storage.answers]_vars

(***************************************************************************)
(* FaultSpec: a timed session of one question whose sessionStorage may     *)
(* fail at any call of the countdown code.                                 *)
(***************************************************************************)
PermissionQueryFaulty(d, fault) ==
    /\ loc = "interview"
    /\ LET w1 == [W EXCEPT
                    !.page.permDetail = d,
                    !.page.permOk = (d.mic = "granted" /\ d.camera = "granted"),
                    !.hist.faults = IF fault = "none" THEN @ ELSE @ + 1]
           w2 == IF w1.page.permOk # page.permOk
                 THEN timerInitEffectFaulty(w1, now, fault) ELSE w1
       IN  /\ fault # "none" => (hist.faults < MaxFaults /\ w1.page.permOk /\ ~page.permOk)
           /\ Commit(autoSubmitEffect(w2))
    /\ UNCHANGED <<initialData, recs, loc, now, QVars, CamVars, FormVars, AudioVars>>

TickFaulty(writeFails) ==
    /\ loc = "interview"
    /\ intervalActive(page)
    /\ writeFails => hist.faults < MaxFaults
    /\ Commit(autoSubmitEffect(tickUpdater(
            [W EXCEPT !.hist.faults = IF writeFails THEN @ + 1 ELSE @], writeFails)))
    /\ now' = now + 1
    /\ UNCHANGED <<initialData, recs, loc, QVars, CamVars, FormVars, AudioVars>>

FaultInit ==
    /\ initialData = [questions |-> <<"q1">>, num_questions |-> Some(1),
                      duration_minutes |-> Some([num |-> MaxSecs, den |-> SecondsPerMinute])]
    /\ InitPage
    /\ base = <<>>
    /\ count = None
    /\ out = <<>>
    /\ InitCam
    /\ InitForm
    /\ InitAudio

FaultNext ==
    \/ \E d \in PermOutcomes, fault \in StorageFaults : PermissionQueryFaulty(d, fault)
    \/ \E writeFails \in BOOLEAN : TickFaulty(writeFails)
    \/ FinishClick
    \/ \E i \in 1..Len(reqs) : SubmitFails(i)
    \/ Reload

FaultSpec == FaultInit /\ [][FaultNext]_vars

\* C20: no exception escapes the countdown code; every tick lowers seconds
\* remaining by one, also when its write to sessionStorage fails; and whenever the
\* countdown is at zero or below and no request is in flight, the expiry path has
\* submitted in this page load.
C20_StorageFailuresAreSwallowed ==
    /\ [](~hist.uncaught)
    /\ [][hist.ticks' = hist.ticks + 1
            => /\ IsSome(page'.secondsLeft)
               /\ Val(page'.secondsLeft) = Val(page.secondsLeft) - 1]_vars
    /\ []((loc = "interview" /\ IsSome(secondsLeft) /\ Val(secondsLeft) <= 0
             /\ ~page.submitting)
            => (page.autoSubmitted /\ hist.autoCalls = 1))

\* the write of the tick that reached zero failed (the timer key still holds 1),
\* seconds remaining is 0 and the expiry path has submitted
C20_Witness ==
    /\ loc = "interview"
    /\ hist.loads = 0
    /\ storage.timer = Some(<<"1">>)
    /\ hist.ticks = expectedSecs(durationMinutes)
    /\ secondsLeft = Some(0)
    /\ hist.sent.auto = 1
    /\ Len(reqs) = 1
    /\ reqs[1].by = "auto"

(***************************************************************************)
(* The countdown and the permission gate (page.tsx:219-222, 268), under    *)
(* Spec.                                                                   *)
(***************************************************************************)
\* a step of one page load of the interview page
SameLoad == loc = "interview" /\ loc' = "interview" /\ hist'.loads = hist.loads

\* C21 as claimed: while permOk is false the countdown is neither seeded nor
\* decremented, and when the permissions are granted again the countdown that
\* was shown resumes from the same value.
C21_NoCountdownWithoutPermissions ==
    [][(SameLoad /\ ~page.permOk)
        => /\ ~page'.permOk
                => /\ page'.secondsLeft = page.secondsLeft
                   /\ hist'.ticks = hist.ticks
                   /\ hist'.seeds = hist.seeds
           /\ (page'.permOk /\ IsSome(page.secondsLeft))
                => page'.secondsLeft = page.secondsLeft]_vars

(***************************************************************************)
(* A failed submit-all request (page.tsx:189-192, 210-214), under Spec.    *)
(***************************************************************************)
\* the expired countdown's auto-submission started in this step
autoRetried == hist'.sent.auto > hist.sent.auto

NotAudio == <<initialData, storage, reqs, recs, loc, now, hist, QVars, CamVars, FormVars>>

\* click on Speak question (part_004:30-37, 208-214)
SpeakClick ==
    /\ ~(audio.speaking \/ audioProps.disabled)
    /\ audio.spoken < MaxSpeaks
    /\ audio' = [audio EXCEPT !.speaking = TRUE, !.ttsReqs = @ + 1, !.spoken = @ + 1]
    /\ UNCHANGED <<page, NotAudio>>

\* the text-to-speech fetch settles (part_004:38-47)
TtsResponds(ok) ==
    /\ audio.ttsReqs > 0
    /\ audio' = speakResolved(audio, ok)
    /\ UNCHANGED <<page, NotAudio>>

\* audio.onended (part_004:42)
AudioEnded(el) ==
    /\ el \in audio.playing
    /\ audio' = [audio EXCEPT !.playing = @ \ {el}, !.speaking = FALSE]
    /\ UNCHANGED <<page, NotAudio>>

\* click on Record answer: start() up to its await (part_004:52-54, 216-223)
RecordClick ==
    /\ ~audio.recording
    /\ ~audioProps.disabled
    /\ audio.made + Len(audio.micReqs) < MaxRecordings
    /\ audio' = [audio EXCEPT !.micReqs = Append(@, [cb |-> audioProps.cb])]
    /\ UNCHANGED <<page, NotAudio>>

\* getUserMedia resolves for the k-th pending call of start()
MicGranted(k) ==
    /\ k \in 1..Len(audio.micReqs)
    /\ audio' = startResolved([audio EXCEPT !.micReqs = RemoveAt(@, k)],
                              audio.micReqs[k].cb)
    /\ UNCHANGED <<page, NotAudio>>

\* getUserMedia rejects: start() throws at its await
MicRejected(k) ==
    /\ k \in 1..Len(audio.micReqs)
    /\ audio' = [audio EXCEPT !.micReqs = RemoveAt(@, k)]
    /\ UNCHANGED <<page, NotAudio>>

\* click on Stop (part_004:225)
StopClick ==
    /\ audio.recording
    /\ audio' = stop(audio)
    /\ UNCHANGED <<page, NotAudio>>

\* the speech-to-text fetch of mr.onstop answers (part_004:64-66); heard: with a
\* transcription
SttRespondsForDisplayed(r, heard) ==
    /\ r \in audio.stt
    /\ audio' = [audio EXCEPT
                   !.stt = @ \ {r},
                   !.answered = Append(@, [n |-> r.n, cb |-> r.cb, heard |-> heard,
                                           idx |-> page.idx])]
    /\ page' = IF heard
               THEN [page EXCEPT !.transcripts = setTranscript(@, page.idx, Heard(r.n))]
               ELSE page
    /\ UNCHANGED NotAudio

SttResponds(r, heard) ==
    /\ r \in audio.stt
    /\ audio' = [audio EXCEPT
                   !.stt = @ \ {r},
                   !.answered = Append(@, [n |-> r.n, cb |-> r.cb, heard |-> heard,
                                           idx |-> page.idx])]
    /\ page' = IF heard
               THEN [page EXCEPT !.transcripts = setTranscript(@, r.cb, Heard(r.n))]
               ELSE page
    /\ UNCHANGED NotAudio

\* the parent re-renders the lone component with disabled = TRUE
Disable ==
    /\ audio.host = "alone"
    /\ ~audio.off
    /\ audio' = disabledEffect([audio EXCEPT !.off = TRUE], TRUE)
    /\ UNCHANGED <<page, NotAudio>>

\* the parent re-renders the lone component with disabled = FALSE
Enable ==
    /\ audio.host = "alone"
    /\ audio.off
    /\ audio' = disabledEffect([audio EXCEPT !.off = FALSE], FALSE)
    /\ UNCHANGED <<page, NotAudio>>

AudioInit ==
    /\ initialData = [questions |-> <<"q1">>, num_questions |-> Some(1),
                      duration_minutes |-> None]
    /\ InitPage
    /\ base = <<>>
    /\ count = None
    /\ out = <<>>
    /\ InitCam
    /\ InitForm
    /\ audio = FreshAudio("alone")

AudioNext ==
    \/ SpeakClick
    \/ \E ok \in BOOLEAN : TtsResponds(ok)
    \/ \E el \in audio.playing : AudioEnded(el)
    \/ RecordClick
    \/ \E k \in 1..Len(audio.micReqs) : MicGranted(k)
    \/ \E k \in 1..Len(audio.micReqs) : MicRejected(k)
    \/ StopClick
    \/ \E r \in audio.stt, heard \in BOOLEAN : SttResponds(r, heard)
    \/ Disable
    \/ Enable

AudioSpec == AudioInit /\ [][AudioNext]_vars

\* C25 as claimed: while the audio controls are disabled no recording is active
\* and no question audio is playing, also when a microphone or text-to-speech
\* request made before the disabling is answered after it.
C25_NothingActiveWhileDisabled ==
    audioProps.disabled => (audio.recorders = {} /\ audio.playing = {})

(***************************************************************************)
(* CameraSpec: the camera stream of a CameraPreview whose parent turns     *)
(* disabled on and off (page.tsx:481-500, 583-594; the basic variant       *)
(* page.tsx:665-700 has the same effect).                                  *)
(***************************************************************************)
\* the cleanup of the effect (page.tsx:583-588): this run is cancelled, the tracks of
\* the current stream are stopped and the ref is cleared
effectCleanup(c) ==
    [c EXCEPT
        !.camReqs = [k \in DOMAIN @ |-> [@[k] EXCEPT !.cancelled = TRUE]],
        !.live = IF IsSome(c.streamRef) THEN @ \ {Val(c.streamRef)} ELSE @,
        !.streamRef = None]

\* the body of the effect (page.tsx:482-487, 581): start() up to its await
effectStart(c, disabled) ==
    IF disabled THEN c
    ELSE [c EXCEPT
            !.camReqs = Append(@, [id |-> c.asked + 1, cancelled |-> FALSE]),
            !.asked = @ + 1]

\* start() once getUserMedia has resolved for the k-th pending call (page.tsx:491-495)
streamResolvedUnchecked(c, k) ==
    [c EXCEPT
        !.camReqs = RemoveAt(@, k),
        !.streamRef = Some(c.camReqs[k].id),
        !.live = @ \cup {c.camReqs[k].id}]

streamResolved(c, k) ==
    IF c.camReqs[k].cancelled
    THEN [c EXCEPT !.camReqs = RemoveAt(@, k), !.dropped = @ + 1]
    ELSE [c EXCEPT
            !.camReqs = RemoveAt(@, k),
            !.streamRef = Some(c.camReqs[k].id),
            !.live = @ \cup {c.camReqs[k].id}]

NotCam == <<PageVars, QVars, FormVars, AudioVars>>

\* the parent re-renders with disabled = TRUE: cleanup, then the effect body
CamDisable ==
    /\ cam.host = "toggled"
    /\ ~cam.off
    /\ cam' = effectStart(effectCleanup([cam EXCEPT !.off = TRUE]), TRUE)
    /\ UNCHANGED NotCam

\* the parent re-renders with disabled = FALSE: cleanup, then the effect body
CamEnable ==
    /\ cam.host = "toggled"
    /\ cam.off
    /\ cam.asked < MaxCamRequests
    /\ cam' = effectStart(effectCleanup([cam EXCEPT !.off = FALSE]), FALSE)
    /\ UNCHANGED NotCam

\* getUserMedia resolves with a stream
CamGranted(k) ==
    /\ k \in 1..Len(cam.camReqs)
    /\ cam' = streamResolved(cam, k)
    /\ UNCHANGED NotCam

\* getUserMedia rejects (page.tsx:575-577)
CamRejected(k) ==
    /\ k \in 1..Len(cam.camReqs)
    /\ cam' = [cam EXCEPT !.camReqs = RemoveAt(@, k)]
    /\ UNCHANGED NotCam

\* the component has mounted enabled and its effect has run once
CameraInit ==
    /\ initialData = [questions |-> <<>>, num_questions |-> None, duration_minutes |-> None]
    /\ InitPage
    /\ base = <<>>
    /\ count = None
    /\ out = <<>>
    /\ cam = effectStart(FreshCam("toggled"), FALSE)
    /\ InitForm
    /\ InitAudio

CameraNext ==
    \/ CamDisable
    \/ CamEnable
    \/ \E k \in 1..Len(cam.camReqs) : CamGranted(k)
    \/ \E k \in 1..Len(cam.camReqs) : CamRejected(k)

CameraSpec == CameraInit /\ [][CameraNext]_vars

\* C26: while the camera preview is disabled no camera stream is held: no stream
\* has a live track and the ref is cleared; and at any time the only stream with a
\* live track is the one the ref holds, whatever the order in which the pending
\* camera requests resolve.
C26_NoStreamWhileDisabled ==
    /\ cameraProps.disabled => (cam.live = {} /\ cam.streamRef = None)
    /\ \A id \in cam.live : cam.streamRef = Some(id)

\* disabled, after the requests of two cancelled runs resolved late and while
\* that of a third is still pending
C26_Witness ==
    /\ cameraProps.disabled
    /\ cam.dropped = 2
    /\ Len(cam.camReqs) = 1
    /\ cam.camReqs[1].cancelled
    /\ cam.live = {}
    /\ cam.streamRef = None

(***************************************************************************)
(* PreambleSpec: speak() of the AudioControls variant that asks the back   *)
(* end for a preamble first (part_003:33-69).  A text is a sequence of     *)
(* tokens; the empty string is <<>>; template literals concatenate.        *)
(***************************************************************************)
\* the question prop, and context.name (None: undefined)
QuestionTexts == {<<>>, <<"q1">>}

ContextNames == {None, Some(<<"Ava">>)}

\* how the generate-preamble fetch ends: it rejects; it answers with a status
\* that is not ok; it answers ok with a body without preamble, with an empty
\* preamble, or with a preamble
PreambleOutcomes ==
    {[kind |-> "rejects", preamble |-> None],
     [kind |-> "notOk", preamble |-> Some(<<"Sorry">>)],
     [kind |-> "ok", preamble |-> None],
     [kind |-> "ok", preamble |-> Some(<<>>)],
     [kind |-> "ok", preamble |-> Some(<<"Next", " ", "one">>)]}

\* the value of `preamble` after the inner try/catch (part_003:38-51)
preambleOf(outcome) ==
    IF outcome.kind = "ok" /\ IsSome(outcome.preamble) /\ Val(outcome.preamble) # <<>>
    THEN Val(outcome.preamble)
    ELSE <<>>

\* `Hello${context?.name ? ' ' + context.name : ''}. `   (part_003:53)
greeting(name) ==
    <<"Hello">> \o (IF IsSome(name) /\ Val(name) # <<>> THEN <<" ">> \o Val(name) ELSE <<>>)
        \o <<".", " ">>

\* toSpeak (part_003:53)
toSpeakNoFallback(preamble, question, name) ==
    IF preamble # <<>> THEN preamble \o <<" ">> \o question ELSE preamble

toSpeak(preamble, question, name) ==
    IF preamble # <<>>
    THEN preamble \o <<" ">> \o question
    ELSE greeting(name) \o question

\* click on Speak question, up to the preamble fetch (part_003:33-46)
SpeakWithPreamble(question, name) ==
    /\ ~(audio.speaking \/ audioProps.disabled)
    /\ audio.spoken < MaxSpeaks
    /\ audio' = [audio EXCEPT
                   !.speaking = TRUE,
                   !.spoken = @ + 1,
                   !.preReqs = Append(@, [question |-> question, name |-> name])]
    /\ UNCHANGED <<page, NotAudio>>

\* the preamble fetch of the k-th pending speak() settles and the text is posted
\* to text-to-speech (part_003:46-58)
PreambleResponds(k, outcome) ==
    /\ k \in 1..Len(audio.preReqs)
    /\ LET req == audio.preReqs[k]
       IN  audio' = [audio EXCEPT
                       !.preReqs = RemoveAt(@, k),
                       !.ttsReqs = @ + 1,
                       !.sent = Append(@, [text |-> toSpeak(preambleOf(outcome),
                                                           req.question, req.name),
                                           question |-> req.question,
                                           name |-> req.name,
                                           outcome |-> outcome])]
    /\ UNCHANGED <<page, NotAudio>>

PreambleNext ==
    \/ \E question \in QuestionTexts, name \in ContextNames :
            SpeakWithPreamble(question, name)
    \/ \E k \in 1..Len(audio.preReqs), outcome \in PreambleOutcomes :
            PreambleResponds(k, outcome)
    \/ \E ok \in BOOLEAN : TtsResponds(ok)
    \/ \E el \in audio.playing : AudioEnded(el)

PreambleSpec == AudioInit /\ [][PreambleNext]_vars

\* t ends with u
EndsWith(t, u) ==
    /\ Len(u) <= Len(t)
    /\ SubSeq(t, Len(t) - Len(u) + 1, Len(t)) = u

\* C27: however the preamble request ends, the text posted to text-to-speech is
\* not empty and ends with the question; when the request failed, was not ok or
\* brought no preamble, the text is the built-in greeting followed by the
\* question; and every speak() whose preamble request has settled has posted.
C27_PreambleFailureStillSpeaks ==
    /\ Len(audio.sent) + Len(audio.preReqs) = audio.spoken
    /\ \A i \in 1..Len(audio.sent) :
          LET s == audio.sent[i]
          IN  /\ s.text # <<>>
              /\ EndsWith(s.text, s.question)
              /\ (s.outcome.kind # "ok" \/ s.outcome.preamble \in {None, Some(<<>>)})
                    => s.text = greeting(s.name) \o s.question

\* a rejected preamble request and one that was answered with an error status
\* have both been followed by a post to text-to-speech
C27_Witness ==
    /\ Len(audio.sent) = 2
    /\ audio.sent[1].outcome.kind = "rejects"
    /\ audio.sent[2].outcome.kind = "notOk"
    /\ audio.sent[2].question = <<"q1">>
    /\ audio.sent[2].text = <<"Hello", " ", "Ava", ".", " ", "q1">>

(***************************************************************************)
(* RecordSpec: the interview page with its AudioControls, an untimed       *)
(* session of several questions; the candidate records, stops and          *)
(* navigates while speech-to-text answers in any order.                    *)
(***************************************************************************)
RecordInit ==
    /\ initialData = [questions |-> <<"q1", "q2">>, num_questions |-> Some(MaxQuestions),
                      duration_minutes |-> None]
    /\ InitPage
    /\ base = <<>>
    /\ count = None
    /\ out = <<>>
    /\ InitCam
    /\ InitForm
    /\ InitAudio

\* the permission query reports both permissions granted
Granted == [camera |-> "granted", mic |-> "granted"]

RecordNext ==
    \/ PermissionQuery(Granted)
    \/ Previous
    \/ NextQuestion
    \/ RecordClick
    \/ \E k \in 1..Len(audio.micReqs) : MicGranted(k)
    \/ StopClick
    \/ \E r \in audio.stt, heard \in BOOLEAN : SttResponds(r, heard)

RecordSpec == RecordInit /\ [][RecordNext]_vars

\* C28: a transcription is stored as the answer of the question that was displayed
\* when Record was clicked for its recording, whichever question is displayed when
\* the recording is stopped or when the transcription arrives, and the answers of
\* all other questions stay as they were.
C28_StoredForQuestionRecorded ==
    [][page'.transcripts # page.transcripts
          => \E r \in audio.stt \ audio'.stt :
                /\ DOMAIN page'.transcripts = DOMAIN page.transcripts \cup {r.cb}
                /\ page'.transcripts[r.cb] = Heard(r.n)
                /\ \A k \in DOMAIN page.transcripts \ {r.cb} :
                      page'.transcripts[k] = page.transcripts[k]]_vars

\* the answer of the first question was recorded and transcribed, then that of
\* the second was recorded on its page and its transcription arrived after the
\* candidate had gone back to the first question
C28_Witness ==
    /\ Len(audio.answered) = 2
    /\ audio.answered[2] = [n |-> 2, cb |-> 1, heard |-> TRUE, idx |-> 0]
    /\ page.idx = 0
    /\ page.transcripts = (0 :> Heard(1)) @@ (1 :> Heard(2))

\* the recordings of question q whose transcription has arrived, non-empty
heardFor(q) == {i \in 1..Len(audio.answered) :
                   audio.answered[i].cb = q /\ audio.answered[i].heard}

\* C29 as claimed: the answer stored for a question is the non-empty transcription
\* of the most recently made of its recordings, in whatever order the
\* speech-to-text responses arrived.
C29_LatestRecordingWins ==
    \A q \in 0..(Len(questions) - 1) :
        heardFor(q) # {}
            => LET newest == CHOOSE i \in heardFor(q) :
                                 \A j \in heardFor(q) :
                                     audio.answered[j].n <= audio.answered[i].n
               IN  lookup(page.transcripts, q) = Heard(audio.answered[newest].n)

(***************************************************************************)
(* The timer keys after a successful submission (page.tsx:195-209), under  *)
(* Spec.                                                                   *)
(***************************************************************************)
\* a submission of this page load has succeeded and the document is still there:
\* onFinish waits for its minimum delay, or it has set location.href
succeededHere ==
    /\ loc = "interview"
    /\ page.leaving \/ \E i \in 1..Len(reqs) : reqs[i].stage = "delay"

\* C30 as claimed: from the removal of the timer keys by the success path until
\* the page navigates away, neither the timer key nor the timer-meta key is in
\* sessionStorage.
C30_TimerKeysStayCleared ==
    succeededHere => (storage.timer = None /\ storage.timerMeta = None)

(***************************************************************************)
(* The range of the countdown (page.tsx:217-279), under Spec.              *)
(***************************************************************************)
\* the number the timer key holds, read as the init effect reads it
persistedSeconds == OrZero(parseInt(Val(storage.timer)))

\* C31: whenever a countdown exists, the seconds remaining and the persisted timer
\* value are within 0..(allotted duration in seconds): never negative and never
\* above what was seeded, through ticks, reloads, permission changes and
\* submissions.
C31_CountdownInRange ==
    /\ IsSome(secondsLeft)
          => (0 <= Val(secondsLeft) /\ Val(secondsLeft) <= expectedSecs(durationMinutes))
    /\ IsSome(storage.timer)
          => /\ IsSome(parseInt(Val(storage.timer)))
             /\ 0 <= persistedSeconds
             /\ persistedSeconds <= expectedSecs(durationMinutes)

\* the countdown has run down to 0 on a page loaded again, and 0 is persisted
C31_Witness ==
    /\ loc = "interview"
    /\ hist.loads >= 1
    /\ secondsLeft = Some(0)
    /\ storage.timer = Some(String(0))
    /\ hist.ticks = expectedSecs(durationMinutes)
    /\ expectedSecs(durationMinutes) = MaxSecs

(***************************************************************************)
(* The position in the question list (page.tsx:34, 355-368), under         *)
(* AnswerSpec.                                                             *)
(***************************************************************************)
\* C32: whenever the question list is non-empty, the current index is a valid
\* position in it: 0 <= idx < number of questions, through any sequence of
\* Previous and Next clicks.
C32_IndexInRange ==
    Len(questions) > 0 => (0 <= page.idx /\ page.idx < Len(questions))

\* the last question is displayed, reached by Next clicks only
C32_Witness ==
    /\ loc = "interview"
    /\ Len(questions) = MaxQuestions
    /\ MaxQuestions > 1
    /\ page.permOk
    /\ page.idx = Len(questions) - 1

(***************************************************************************)
(* ResultSpec: the results page (result/page.tsx) after an interview.  The *)
(* registration form has stored a pool of 1..MaxPool questions and a       *)
(* requested count of 1..MaxCount (page.tsx:790-802); the candidate walks  *)
(* forward through the presented questions, answers some, submits, and the *)
(* results page builds its rows from what sessionStorage holds.  The       *)
(* stored result comes from the backend: its responses are absent or hold  *)
(* one entry per answer sent.                                              *)
(***************************************************************************)
\* xs[i] ?? ""   (i counts from 1 here)
itemOrEmpty(xs, i) == IF i <= Len(xs) THEN xs[i] ELSE ""

\* rows (result/page.tsx:40-55): qs, as as loaded by the effect of lines 18-36,
\* nresp the length of result.responses
rows(qs, as, nresp) ==
    [i \in 1..Max(Len(qs), Max(Len(as), nresp)) |->
        [question |-> itemOrEmpty(qs, i),
         answer |-> itemOrEmpty(as, i),
         scored |-> i <= nresp]]

\* setQuestions(Array.isArray(qData?.questions) ? qData.questions : null), then
\* questions || []   (result/page.tsx:23, 27-28, 41)
resultQuestions == initialData.questions

\* setAnswers(aRaw ? JSON.parse(aRaw) : null), then answers || []
\* (result/page.tsx:22, 26, 42)
resultAnswers == IF IsSome(storage.answers) THEN Val(storage.answers) ELSE <<>>

\* the lengths result.responses can have
ResponseCounts == {0, Len(resultAnswers)}

\* the results page mounts: load effect and rows (result/page.tsx:18-55)
ResultLoad(nresp) ==
    /\ loc = "result"
    /\ out = None
    /\ out' = Some(rows(resultQuestions, resultAnswers, nresp))
    /\ UNCHANGED <<base, count, PageVars, CamVars, FormVars, AudioVars>>

ResultSessions ==
    [questions : SeqsUpTo({"q1", "q2"}, MaxPool) \ {<<>>},
     num_questions : {Some(n) : n \in 1..MaxCount},
     duration_minutes : {None}]

ResultInit ==
    /\ initialData \in ResultSessions
    /\ InitPage
    /\ base = <<>>
    /\ count = None
    /\ out = None
    /\ InitCam
    /\ InitForm
    /\ InitAudio

ResultNext ==
    \/ PermissionQuery(Granted)
    \/ NextQuestion
    \/ StartRecording
    \/ \E i \in recs, text \in Texts : Transcribed(i, text)
    \/ FinishClick
    \/ \E i \in 1..Len(reqs) : SubmitOk(i, FALSE)
    \/ NavCommit
    \/ \E nresp \in ResponseCounts : ResultLoad(nresp)

ResultSpec == ResultInit /\ [][ResultNext]_vars

\* C33: the result breakdown has exactly one row per question presented in the
\* interview, and row i shows the i-th presented question with the i-th submitted
\* answer, for every pool size and requested count.
C33_RowsArePresentedQuestions ==
    (loc = "result" /\ IsSome(out))
        => /\ Len(Val(out)) = Len(questions)
           /\ \A i \in 1..Len(Val(out)) :
                 /\ Val(out)[i].question = questions[i]
                 /\ Val(out)[i].answer = resultAnswers[i]

(***************************************************************************)
(* GateSpec: the interview page of two questions, untimed, with its        *)
(* AudioControls (part_004) mounted, while the browser's permissions are   *)
(* granted and withdrawn.  A handler of the page that changes the          *)
(* disabled prop of AudioControls (page.tsx:337) is followed by the effect *)
(* of part_004:178-192 in the same step.                                   *)
(***************************************************************************)
\* AudioControls after the page has re-rendered as p2
audioAfter(p2) ==
    IF mediaDisabled(p2) # mediaDisabled(page)
    THEN disabledEffect(audio, mediaDisabled(p2))
    ELSE audio

\* run() of the permission effect, at mount or from an onchange of the browser
\* (page.tsx:94-121), or requestPermissions (page.tsx:133-163), with outcome d
GatePermission(d) ==
    /\ loc = "interview"
    /\ LET w1 == [W EXCEPT
                    !.page.permDetail = d,
                    !.page.permOk = (d.mic = "granted" /\ d.camera = "granted")]
           w2 == IF w1.page.permOk # page.permOk THEN timerInitEffect(w1, now) ELSE w1
           w3 == autoSubmitEffect(w2)
       IN  /\ Commit(w3)
           /\ audio' = audioAfter(w3.page)
    /\ UNCHANGED <<initialData, recs, loc, now, QVars, CamVars, FormVars>>

\* click on Finish Interview (page.tsx:369-375)
GateFinish ==
    /\ loc = "interview"
    /\ ~finishDisabled(page)
    /\ UserSteps < MaxUserSteps
    /\ LET w1 == autoSubmitEffect(onFinish(W, "manual"))
       IN  /\ Commit(w1)
           /\ audio' = audioAfter(w1.page)
    /\ UNCHANGED <<initialData, recs, loc, now, QVars, CamVars, FormVars>>

GateNext ==
    \/ \E d \in PermOutcomes \cup RequestOutcomes : GatePermission(d)
    \/ Previous
    \/ NextQuestion
    \/ SpeakClick
    \/ \E ok \in BOOLEAN : TtsResponds(ok)
    \/ \E el \in audio.playing : AudioEnded(el)
    \/ RecordClick
    \/ \E k \in 1..Len(audio.micReqs) : MicGranted(k)
    \/ StopClick
    \/ \E r \in audio.stt, heard \in BOOLEAN : SttResponds(r, heard)
    \/ GateFinish
    \/ \E i \in 1..Len(reqs) : SubmitFails(i)

GateSpec == RecordInit /\ [][GateNext]_vars

\* permOk is true only with both permissions recorded as granted
permOkMeansGranted == page.permOk => page.permDetail = Granted

\* while permOk is false no click of the candidate takes effect: the question
\* displayed stays, no getUserMedia or text-to-speech request is made, no manual
\* submission is sent
gatedClicks ==
    ~page.permOk =>
        /\ page'.idx = page.idx
        /\ Len(audio'.micReqs) <= Len(audio.micReqs)
        /\ audio'.spoken = audio.spoken
        /\ hist'.sent.manual = hist.sent.manual

\* while permOk is false nothing is being recorded and no question is being played
gatedMedia == ~page.permOk => (audio.recorders = {} /\ audio.playing = {})

\* C34: the interview is gated on both permissions: permOk is true only when both
\* the camera and the microphone permission are recorded as granted, and while
\* permOk is false the candidate can neither navigate between questions, nor
\* record or hear a question, nor trigger a manual Finish.
C34_GatedOnBothPermissions ==
    /\ [](permOkMeansGranted /\ gatedMedia)
    /\ [][gatedClicks]_vars

====
